---- MODULE Spec2Model ----
(***************************************************************************)
(* The P2P network actor of boundless_p2p as the patch scripts write it:   *)
(*   NetworkNode::new  tail   (update_network_new.py, replace_return)      *)
(*   NetworkNode::run / handle_command   (update_network.py, new_run_impl) *)
(*   the gossipsub Message arm of handle_swarm_event                       *)
(*                            (update_message_handling.py, new_handling)   *)
(***************************************************************************)
EXTENDS Integers, Sequences, FiniteSets, TLC

(***************************************************************************)
(* Bounds and input domains                                                *)
(***************************************************************************)
\* commands accepted by the command channel over one run
MaxCmds == 2
\* longest block list of an inbound Blocks message
MaxBlocks == 2

Peers == {"p1", "p2"}
BlockIds == {11, 12}
TxIds == {21}
Heights == {31}
Hashes == {41}
Counts == {51}
Nonces == {61}

\* h0 is the NetworkHandle that NetworkNode::new returns; h1 holds the
\* sender of the channel whose receiver the caller passes to run().
NewHandle == "h0"
RunHandles == {"h1"}
Handles == {NewHandle} \cup RunHandles

None == [type |-> "None"]

(***************************************************************************)
(* Wire protocol codec (Message::to_bytes / Message::from_bytes).          *)
(* A positional encoding: the variant index, then the fields in order;     *)
(* a sequence is prefixed by its length.                                   *)
(***************************************************************************)
DecodeError == [type |-> "DecodeError"]

to_bytes(m) ==
    CASE m.type = "NewBlock"       -> <<0, m.block>>
      [] m.type = "NewTransaction" -> <<1, m.transaction>>
      [] m.type = "Status"         -> <<2, m.height, m.best_hash>>
      [] m.type = "GetBlocks"      -> <<3, m.start_height, m.count>>
      [] m.type = "Blocks"         -> <<4, Len(m.blocks)>> \o m.blocks
      [] m.type = "GetStatus"      -> <<5>>
      [] m.type = "Ping"           -> <<6, m.nonce>>
      [] m.type = "Pong"           -> <<7, m.nonce>>

from_bytes(data) ==
    IF Len(data) = 0 THEN DecodeError
    ELSE CASE data[1] = 0 /\ Len(data) = 2 ->
                [type |-> "NewBlock", block |-> data[2]]
           [] data[1] = 1 /\ Len(data) = 2 ->
                [type |-> "NewTransaction", transaction |-> data[2]]
           [] data[1] = 2 /\ Len(data) = 3 ->
                [type |-> "Status", height |-> data[2], best_block_hash |-> data[3]]
           [] data[1] = 3 /\ Len(data) = 3 ->
                [type |-> "GetBlocks", start_height |-> data[2], count |-> data[3]]
           [] data[1] = 4 /\ Len(data) >= 2 /\ Len(data) = data[2] + 2 ->
                [type |-> "Blocks", blocks |-> SubSeq(data, 3, Len(data))]
           [] data[1] = 5 /\ Len(data) = 1 ->
                [type |-> "GetStatus"]
           [] data[1] = 6 /\ Len(data) = 2 ->
                [type |-> "Ping", nonce |-> data[2]]
           [] data[1] = 7 /\ Len(data) = 2 ->
                [type |-> "Pong", nonce |-> data[2]]
           [] OTHER -> DecodeError

(***************************************************************************)
(* Inputs                                                                  *)
(***************************************************************************)
BlockLists == UNION {[1..n -> BlockIds] : n \in 0..MaxBlocks}

Commands ==
    {[type |-> "BroadcastBlock", block |-> b] : b \in BlockIds}
    \cup {[type |-> "BroadcastTransaction", tx |-> t] : t \in TxIds}
    \cup {[type |-> "SendStatus", peer_id |-> p, height |-> h, best_hash |-> x] :
            p \in Peers, h \in Heights, x \in Hashes}
    \cup {[type |-> "RequestBlocks", peer_id |-> p, start_height |-> h, count |-> c] :
            p \in Peers, h \in Heights, c \in Counts}

\* payloads a peer can put on the wire: encodings of every variant, and
\* byte strings that are no encoding (empty, unknown variant, truncated,
\* wrong length prefix)
ValidPayloads ==
    {<<0, b>> : b \in BlockIds}
    \cup {<<1, t>> : t \in TxIds}
    \cup {<<2, h, x>> : h \in Heights, x \in Hashes}
    \cup {<<3, h, c>> : h \in Heights, c \in Counts}
    \cup {<<4, Len(bs)>> \o bs : bs \in BlockLists}
    \cup {<<5>>}
    \cup {<<6, n>> : n \in Nonces}
    \cup {<<7, n>> : n \in Nonces}

MalformedPayloads == {<< >>, <<9, 11>>, <<0>>, <<4, 2, 11>>}

Payloads == ValidPayloads \cup MalformedPayloads

\* gossipsub::Event::Message: the peer that forwarded the message to this
\* node, and the message with its original publisher and its bytes
GossipEvents ==
    [propagation_source : Peers, source : Peers, data : Payloads]

\* the smaller input sets of the specification that is about the other side
CoreHandles == {"h1"}

CoreCommands == {[type |-> "BroadcastBlock", block |-> 11]}

CoreGossipEvents ==
    [propagation_source : {"p1"}, source : {"p1"}, data : {<<0, 11>>, <<9, 11>>}]


(***************************************************************************)
(* State                                                                   *)
(***************************************************************************)
VARIABLES
    actor_state,    \* "running" while the loop of run() iterates, else "stopped"
    alive,          \* the Handles that have not been dropped
    event_rx,       \* TRUE while the receiver of the event channel exists
    command_queue,  \* the channel behind command_rx: <<[command, from, seq]>>
    accepted,       \* number of commands the channel has accepted so far
    last_seq,       \* per Handle, the seq of its command handled last (0: none)
    warned,         \* the peers a "Failed to deserialize" warning names
    last,           \* the latest operation and what it produced
    peers,          \* the peer table (self.peers), as the set of its keys
    swarm_queue,    \* gossip events the swarm holds ready: <<[event, no]>>
    arrived,        \* number of gossip events that have reached the swarm
    sending,        \* event_tx.send calls the running handler has yet to make
    outputs,        \* the publish attempts and event sends, in the order made
    lines,          \* fix_network_syntax.py: the lines read from the file
    idx,            \* fix_network_syntax.py: lines the loop has been through
    skip_next,      \* fix_network_syntax.py: skip_next
    cleaned_lines   \* fix_network_syntax.py: cleaned_lines

actor_vars == <<actor_state, alive, event_rx, command_queue, accepted, last_seq,
                warned, last, peers>>
detail_vars == <<swarm_queue, arrived, sending, outputs>>
filter_vars == <<lines, idx, skip_next, cleaned_lines>>
vars == <<actor_vars, detail_vars, filter_vars>>

blocks_topic == "blocks"
transactions_topic == "transactions"

NoGossip == [propagation_source |-> "-", source |-> "-", data |-> << >>]

Op(op, handle, result, command, published, event, sent) ==
    [op |-> op, handle |-> handle, result |-> result, command |-> command,
     published |-> published, event |-> event, sent |-> sent]

(***************************************************************************)
(* NetworkNode::new: the command channel is created inside new(), the      *)
(* Handle gets its sender, and the tuple that new() returns holds the      *)
(* actor, the Handle and event_rx: command_rx is in neither the actor nor  *)
(* the tuple, so it is dropped when new() returns.                         *)
(***************************************************************************)
replace_return == [handle |-> NewHandle, command_rx_returned |-> FALSE]

ReceiverAliveWhileRunning(h) == actor_state = "running"

\* The receiver behind Handle h exists: run() owns the command_rx it was
\* given for as long as it loops; the receiver of new()'s own channel
\* exists only if new() handed it out.
ReceiverAlive(h) ==
    IF h = replace_return.handle
    THEN replace_return.command_rx_returned /\ actor_state = "running"
    ELSE actor_state = "running"

(***************************************************************************)
(* handle_command                                                          *)
(***************************************************************************)
\* gossipsub.publish(topic, data) after `if let Ok(data) = message.to_bytes()`;
\* ok is what publish returns (Err is warned about and dropped)
PublishIfSubscribed(topic, message, ok) ==
    IF event_rx
    THEN <<[topic |-> topic, message |-> message, data |-> to_bytes(message),
            ok |-> ok]>>
    ELSE << >>

PublishRetryOnError(topic, message, ok) ==
    LET attempt == [topic |-> topic, message |-> message,
                    data |-> to_bytes(message), ok |-> ok]
    IN  IF ok THEN <<attempt>> ELSE <<attempt, attempt>>

Publish(topic, message, ok) ==
    <<[topic |-> topic, message |-> message, data |-> to_bytes(message), ok |-> ok]>>

handle_command_one_topic(command, ok) ==
    CASE command.type = "BroadcastBlock" ->
            Publish(blocks_topic,
                    [type |-> "NewBlock", block |-> command.block], ok)
      [] command.type = "BroadcastTransaction" ->
            Publish(blocks_topic,
                    [type |-> "NewTransaction", transaction |-> command.tx], ok)
      [] command.type = "SendStatus" ->
            Publish(blocks_topic,
                    [type |-> "Status", height |-> command.height,
                     best_hash |-> command.best_hash], ok)
      [] command.type = "RequestBlocks" ->
            Publish(blocks_topic,
                    [type |-> "GetBlocks", start_height |-> command.start_height,
                     count |-> command.count], ok)

handle_command_to_peer(command, ok) ==
    CASE command.type = "BroadcastBlock" ->
            Publish(blocks_topic,
                    [type |-> "NewBlock", block |-> command.block], ok)
      [] command.type = "BroadcastTransaction" ->
            Publish(transactions_topic,
                    [type |-> "NewTransaction", transaction |-> command.tx], ok)
      [] command.type = "SendStatus" ->
            Publish(<<blocks_topic, command.peer_id>>,
                    [type |-> "Status", height |-> command.height,
                     best_hash |-> command.best_hash], ok)
      [] command.type = "RequestBlocks" ->
            Publish(<<blocks_topic, command.peer_id>>,
                    [type |-> "GetBlocks", start_height |-> command.start_height,
                     count |-> command.count], ok)

handle_command(command, ok) ==
    CASE command.type = "BroadcastBlock" ->
            Publish(blocks_topic,
                    [type |-> "NewBlock", block |-> command.block], ok)
      [] command.type = "BroadcastTransaction" ->
            Publish(transactions_topic,
                    [type |-> "NewTransaction", transaction |-> command.tx], ok)
      [] command.type = "SendStatus" ->
            Publish(blocks_topic,
                    [type |-> "Status", height |-> command.height,
                     best_hash |-> command.best_hash], ok)
      [] command.type = "RequestBlocks" ->
            Publish(blocks_topic,
                    [type |-> "GetBlocks", start_height |-> command.start_height,
                     count |-> command.count], ok)

(***************************************************************************)
(* The gossipsub Message arm of handle_swarm_event                         *)
(***************************************************************************)
RECURSIVE SendBlocksReversed(_, _)
SendBlocksReversed(peer_id, blocks) ==
    IF blocks = << >> THEN << >>
    ELSE SendBlocksReversed(peer_id, Tail(blocks))
         \o <<[type |-> "BlockReceived", peer_id |-> peer_id, block |-> Head(blocks)]>>

\* for block in blocks { let _ = self.event_tx.send(BlockReceived{..}) }
RECURSIVE SendBlocks(_, _)
SendBlocks(peer_id, blocks) ==
    IF blocks = << >> THEN << >>
    ELSE <<[type |-> "BlockReceived", peer_id |-> peer_id, block |-> Head(blocks)]>>
         \o SendBlocks(peer_id, Tail(blocks))

DispatchStatusHeightAsHash(peer_id, msg) ==
    CASE msg.type = "NewBlock" ->
            <<[type |-> "BlockReceived", peer_id |-> peer_id, block |-> msg.block]>>
      [] msg.type = "NewTransaction" ->
            <<[type |-> "TransactionReceived", peer_id |-> peer_id,
               transaction |-> msg.transaction]>>
      [] msg.type = "Status" ->
            <<[type |-> "StatusReceived", peer_id |-> peer_id,
               height |-> msg.height, best_hash |-> msg.height]>>
      [] msg.type = "GetBlocks" ->
            <<[type |-> "BlocksRequested", peer_id |-> peer_id,
               start_height |-> msg.start_height, count |-> msg.count]>>
      [] msg.type = "Blocks" -> SendBlocks(peer_id, msg.blocks)
      [] msg.type = "GetStatus" -> << >>
      [] msg.type = "Ping" -> << >>
      [] msg.type = "Pong" -> << >>

DispatchPingSurfaced(peer_id, msg) ==
    CASE msg.type = "NewBlock" ->
            <<[type |-> "BlockReceived", peer_id |-> peer_id, block |-> msg.block]>>
      [] msg.type = "NewTransaction" ->
            <<[type |-> "TransactionReceived", peer_id |-> peer_id,
               transaction |-> msg.transaction]>>
      [] msg.type = "Status" ->
            <<[type |-> "StatusReceived", peer_id |-> peer_id,
               height |-> msg.height, best_hash |-> msg.best_block_hash]>>
      [] msg.type = "GetBlocks" ->
            <<[type |-> "BlocksRequested", peer_id |-> peer_id,
               start_height |-> msg.start_height, count |-> msg.count]>>
      [] msg.type = "Blocks" -> SendBlocks(peer_id, msg.blocks)
      [] msg.type = "GetStatus" -> << >>
      [] msg.type = "Ping" ->
            <<[type |-> "PingReceived", peer_id |-> peer_id, nonce |-> msg.nonce]>>
      [] msg.type = "Pong" -> << >>

\* the events passed to event_tx.send, in order
Dispatch(peer_id, msg) ==
    CASE msg.type = "NewBlock" ->
            <<[type |-> "BlockReceived", peer_id |-> peer_id, block |-> msg.block]>>
      [] msg.type = "NewTransaction" ->
            <<[type |-> "TransactionReceived", peer_id |-> peer_id,
               transaction |-> msg.transaction]>>
      [] msg.type = "Status" ->
            <<[type |-> "StatusReceived", peer_id |-> peer_id,
               height |-> msg.height, best_hash |-> msg.best_block_hash]>>
      [] msg.type = "GetBlocks" ->
            <<[type |-> "BlocksRequested", peer_id |-> peer_id,
               start_height |-> msg.start_height, count |-> msg.count]>>
      [] msg.type = "Blocks" -> SendBlocks(peer_id, msg.blocks)
      [] msg.type = "GetStatus" -> << >>
      [] msg.type = "Ping" -> << >>
      [] msg.type = "Pong" -> << >>

EventPeerOriginator(event) == event.source

\* propagation_source: peer_id
EventPeer(event) == event.propagation_source

new_handling_forward_malformed(event) ==
    LET peer_id == EventPeer(event)
        msg == from_bytes(event.data)
    IN  IF msg.type = "DecodeError"
        THEN [sent |-> <<[type |-> "MalformedMessage", peer_id |-> peer_id]>>,
              published |-> << >>, result |-> "decode_error"]
        ELSE [sent |-> Dispatch(peer_id, msg), published |-> << >>, result |-> "ok"]

new_handling_pong_reply(event) ==
    LET peer_id == EventPeer(event)
        msg == from_bytes(event.data)
    IN  IF msg.type = "DecodeError"
        THEN [sent |-> << >>, published |-> << >>, result |-> "decode_error"]
        ELSE [sent |-> Dispatch(peer_id, msg),
              published |-> IF msg.type = "Ping"
                            THEN Publish(blocks_topic,
                                         [type |-> "Pong", nonce |-> msg.nonce], TRUE)
                            ELSE << >>,
              result |-> "ok"]

\* sent: the events passed to event_tx.send; published: the calls of
\* gossipsub.publish (no arm makes one)
new_handling(event) ==
    LET peer_id == EventPeer(event)
        msg == from_bytes(event.data)
    IN  IF msg.type = "DecodeError"
        THEN [sent |-> << >>, published |-> << >>, result |-> "decode_error"]
        ELSE [sent |-> Dispatch(peer_id, msg), published |-> << >>, result |-> "ok"]

(***************************************************************************)
(* run: loop { select! { Some(command) = recv() => .., event = .. => .. } } *)
(***************************************************************************)
AfterArmStopOnError(result) == IF result = "ok" THEN "running" ELSE "stopped"

\* Neither arm returns anything to the loop and the loop has no break:
\* whatever happened inside the arm, the next iteration follows.
AfterArm(result) == "running"

\* recv() yields None once every sender is gone and the queue is empty; the
\* pattern Some(command) does not match, the arm is disabled for this
\* select! and the loop goes on waiting for the swarm.
AfterRecvNone == "running"

RunSenders == alive \cap RunHandles

Init ==
    /\ actor_state = "running"
    /\ alive = Handles
    /\ event_rx = TRUE
    /\ command_queue = << >>
    /\ accepted = 0
    /\ last_seq = [h \in Handles |-> 0]
    /\ warned = {}
    /\ last = Op("init", "-", "-", None, << >>, NoGossip, << >>)
    /\ peers = {}
    /\ swarm_queue = << >>
    /\ arrived = 0
    /\ sending = << >>
    /\ outputs = << >>
    /\ lines = << >>
    /\ idx = 0
    /\ skip_next = 0
    /\ cleaned_lines = << >>

\* An iteration of the loop taken as one step: the arrival of a gossip
\* event, its handling and its sends happen together, so the step-wise
\* variables keep their initial values (as do those of the line filter).
Atomic == UNCHANGED <<detail_vars, filter_vars>>

\* a caller enqueues a command through Handle h (UnboundedSender::send)
Enqueue(h, command) ==
    /\ h \in alive
    /\ IF ReceiverAlive(h)
       THEN /\ accepted < MaxCmds
            /\ accepted' = accepted + 1
            /\ command_queue' = Append(command_queue,
                    [command |-> command, from |-> h, seq |-> accepted + 1])
            /\ last' = Op("enqueue", h, "Ok", command, << >>, NoGossip, << >>)
       ELSE /\ UNCHANGED <<accepted, command_queue>>
            /\ last' = Op("enqueue", h, "ChannelClosed", command, << >>, NoGossip, << >>)
    /\ UNCHANGED <<actor_state, alive, event_rx, last_seq, warned, peers>>
    /\ Atomic

DropHandle(h) ==
    /\ h \in alive
    /\ alive' = alive \ {h}
    /\ last' = Op("drop_handle", h, "-", None, << >>, NoGossip, << >>)
    /\ UNCHANGED <<actor_state, event_rx, command_queue, accepted, last_seq, warned, peers>>
    /\ Atomic

DropEventRx ==
    /\ event_rx
    /\ event_rx' = FALSE
    /\ last' = Op("drop_event_rx", "-", "-", None, << >>, NoGossip, << >>)
    /\ UNCHANGED <<actor_state, alive, command_queue, accepted, last_seq, warned, peers>>
    /\ Atomic

NextCommandNewest(queue) == Len(queue)

\* which queued command recv() yields: the oldest
NextCommand(queue) == 1

\* select! arm 1: Some(command) = command_rx.recv() => handle_command(command)
command_arm ==
    /\ actor_state = "running"
    /\ command_queue # << >>
    /\ \E ok \in BOOLEAN :
        LET i == NextCommand(command_queue)
            entry == command_queue[i]
            published == handle_command(entry.command, ok)
        IN  /\ command_queue' = SubSeq(command_queue, 1, i - 1)
                                \o SubSeq(command_queue, i + 1, Len(command_queue))
            /\ last_seq' = [last_seq EXCEPT ![entry.from] = entry.seq]
            /\ last' = Op("command", entry.from, IF ok THEN "ok" ELSE "publish_error",
                          entry.command, published, NoGossip, << >>)
            /\ actor_state' = AfterArm(IF ok THEN "ok" ELSE "publish_error")
    /\ UNCHANGED <<alive, event_rx, accepted, warned, peers>>

HandleCommand == command_arm /\ Atomic

\* select! arm 2 with a gossipsub message: handle_swarm_event(event)
swarm_arm(event) ==
    /\ actor_state = "running"
    /\  LET out == new_handling(event)
            result == IF out.result = "ok" /\ out.sent # << >> /\ ~event_rx
                      THEN "send_error" ELSE out.result
        IN  /\ last' = Op("gossip", "-", result, None, out.published, event, out.sent)
            /\ warned' = IF out.result = "decode_error"
                         THEN warned \cup {EventPeer(event)} ELSE warned
            /\ actor_state' = AfterArm(result)
    /\ UNCHANGED <<alive, event_rx, command_queue, accepted, last_seq, peers>>

HandleGossip(event) == swarm_arm(event) /\ Atomic

\* select! polls recv() on a closed, empty channel
RecvNone ==
    /\ actor_state = "running"
    /\ command_queue = << >>
    /\ RunSenders = {}
    /\ last' = Op("recv_none", "-", "-", None, << >>, NoGossip, << >>)
    /\ actor_state' = AfterRecvNone
    /\ UNCHANGED <<alive, event_rx, command_queue, accepted, last_seq, warned, peers>>
    /\ Atomic

\* the transport reports a connection to peer p: the peer table gains p
ConnectionEstablished(p) ==
    /\ actor_state = "running"
    /\ peers' = peers \cup {p}
    /\ last' = Op("connection_established", "-", p, None, << >>, NoGossip, << >>)
    /\ actor_state' = AfterArm("ok")
    /\ UNCHANGED <<alive, event_rx, command_queue, accepted, last_seq, warned>>
    /\ Atomic

\* the transport reports that the connection to peer p is closed
ConnectionClosed(p) ==
    /\ actor_state = "running"
    /\ p \in peers
    /\ peers' = peers \ {p}
    /\ last' = Op("connection_closed", "-", p, None, << >>, NoGossip, << >>)
    /\ actor_state' = AfterArm("ok")
    /\ UNCHANGED <<alive, event_rx, command_queue, accepted, last_seq, warned>>
    /\ Atomic

\* one step of the system: the callers that act hold the Handles hs and
\* draw their commands from cmds, the swarm draws its gossip events from
\* events
NextOver(hs, cmds, events) ==
    \/ \E h \in hs, command \in cmds : Enqueue(h, command)
    \/ \E h \in hs : DropHandle(h)
    \/ DropEventRx
    \/ HandleCommand
    \/ \E event \in events : HandleGossip(event)
    \/ RecvNone

\* every command, a few gossip events
Next == NextOver(Handles, Commands, CoreGossipEvents)

Spec == Init /\ [][Next]_vars

\* select! picks among the ready arms at random, so a ready arm is taken
\* eventually
FairSpec == Spec /\ WF_vars(HandleCommand) /\ WF_vars(RecvNone)

\* every gossip event, a few commands
InboundNext == NextOver(CoreHandles, CoreCommands, GossipEvents)

InboundSpec == Init /\ [][InboundNext]_vars

\* every variant of command and every payload, with the connection events
\* of the transport
FrameCommands == {c \in Commands : "peer_id" \in DOMAIN c => c.peer_id = "p1"}
FrameGossipEvents == [propagation_source : {"p1"}, source : {"p1"}, data : Payloads]

FrameNext ==
    \/ NextOver(CoreHandles, FrameCommands, FrameGossipEvents)
    \/ \E p \in Peers : ConnectionEstablished(p)
    \/ \E p \in Peers : ConnectionClosed(p)

FrameSpec == Init /\ [][FrameNext]_vars

(***************************************************************************)
(* The loop step by step: gossip events wait in the swarm until the loop   *)
(* polls it, and a handler makes its event_tx.send calls one after the     *)
(* other; `outputs` records the publish attempts and the sends as made.    *)
(***************************************************************************)
MaxArrivals == 3

DetailBlocks == [i \in 1..MaxBlocks |-> IF i = 1 THEN 11 ELSE 12]

DetailPayloads ==
    { to_bytes([type |-> "NewBlock", block |-> 11]),
      to_bytes([type |-> "Blocks", blocks |-> DetailBlocks]) }

DetailGossipEvents ==
    [propagation_source : Peers, source : {"p1"}, data : DetailPayloads]

\* a gossip message reaches the swarm and waits there for the loop
GossipArrives(event) ==
    /\ arrived < MaxArrivals
    /\ arrived' = arrived + 1
    /\ swarm_queue' = Append(swarm_queue, [event |-> event, no |-> arrived + 1])
    /\ UNCHANGED <<actor_vars, sending, outputs, filter_vars>>

\* the arms whose future is ready when select! polls
Ready ==
    (IF command_queue # << >> THEN {"command"} ELSE {})
    \cup (IF swarm_queue # << >> THEN {"swarm"} ELSE {})

select_biased(ready) == IF "command" \in ready THEN {"command"} ELSE ready

\* tokio::select! without `biased;` starts polling at a branch chosen at
\* random: any ready arm may be the one that runs
select(ready) == ready

AtSelectWhileSending == TRUE

\* the loop is at select!: the handler of the previous iteration, awaited
\* inside its arm, has returned
AtSelect == sending = << >>

NextSwarmEventNewest(queue) == Len(queue)

\* which waiting event select_next_some() yields: the oldest
NextSwarmEvent(queue) == 1

PollCommand ==
    /\ AtSelect
    /\ "command" \in select(Ready)
    /\ command_arm
    /\ outputs' = outputs \o
            [i \in 1..Len(last'.published) |->
                [kind |-> "publish", no |-> last_seq'[last'.handle],
                 from |-> last'.handle, item |-> last'.published[i]]]
    /\ UNCHANGED <<swarm_queue, arrived, sending, filter_vars>>

PollSwarm ==
    /\ AtSelect
    /\ "swarm" \in select(Ready)
    /\ LET j == NextSwarmEvent(swarm_queue)
           entry == swarm_queue[j]
       IN  /\ swarm_arm(entry.event)
           /\ swarm_queue' = SubSeq(swarm_queue, 1, j - 1)
                              \o SubSeq(swarm_queue, j + 1, Len(swarm_queue))
           /\ sending' = sending \o
                  [i \in 1..Len(last'.sent) |->
                      [kind |-> "event", no |-> entry.no,
                       from |-> entry.event.propagation_source,
                       item |-> last'.sent[i]]]
    /\ UNCHANGED <<arrived, outputs, filter_vars>>

\* the handler's next self.event_tx.send(..)
SendEvent ==
    /\ sending # << >>
    /\ outputs' = Append(outputs, Head(sending))
    /\ sending' = Tail(sending)
    /\ UNCHANGED <<actor_vars, swarm_queue, arrived, filter_vars>>

DetailNextOver(events) ==
    \/ \E command \in CoreCommands : Enqueue("h1", command)
    \/ \E event \in events : GossipArrives(event)
    \/ PollCommand
    \/ PollSwarm
    \/ SendEvent

DetailNext == DetailNextOver(DetailGossipEvents)

DetailSpec == Init /\ [][DetailNext]_vars

\* the same loop with one kind of gossip message, a Blocks message, so that
\* handlers with several sends alternate with commands
ServiceGossipEvents ==
    [propagation_source : {"p1"}, source : {"p1"},
     data : {to_bytes([type |-> "Blocks", blocks |-> DetailBlocks])}]

ServiceNext == DetailNextOver(ServiceGossipEvents)

\* select! picks at random among the ready arms, so an arm that is ready
\* again and again is taken; a handler that has started goes on
ServiceSpec ==
    /\ Init /\ [][ServiceNext]_vars
    /\ SF_vars(PollCommand) /\ SF_vars(PollSwarm) /\ WF_vars(SendEvent)

(***************************************************************************)
(* Properties                                                              *)
(***************************************************************************)
LastMsg == from_bytes(last.event.data)
LastPeer == last.event.propagation_source
Gossip == last.op = "gossip"
Decoded == Gossip /\ LastMsg.type # "DecodeError"

\* C1: once every Handle has been dropped, the loop of run() eventually
\* leaves the running state and reaches the stopped state, whether or not
\* transport events are pending or keep arriving.
C1_ShutdownWhenHandlesDropped == (alive = {}) ~> (actor_state = "stopped")

\* C2: a command enqueued through the Handle that NetworkNode::new returned,
\* while the actor is running, is accepted by the command channel (no
\* ChannelClosed), which is what lets it reach handle_command.
C2_NewHandleAccepted ==
    (last.op = "enqueue" /\ last.handle = NewHandle /\ actor_state = "running")
        => last.result = "Ok"

\* C3: an inbound gossip message that decodes to Blocks{blocks} with N
\* blocks, received from peer P, makes the actor send exactly N BlockReceived
\* events, the i-th carrying the i-th block and peer_id P.
C3_BlocksFanOut ==
    (Decoded /\ LastMsg.type = "Blocks") =>
        /\ Len(last.sent) = Len(LastMsg.blocks)
        /\ \A i \in 1..Len(last.sent) :
              last.sent[i] = [type |-> "BlockReceived", peer_id |-> LastPeer,
                              block |-> LastMsg.blocks[i]]

C3_Witness ==
    /\ Decoded /\ LastMsg.type = "Blocks"
    /\ Len(LastMsg.blocks) = MaxBlocks
    /\ LastMsg.blocks[1] # LastMsg.blocks[2]
    /\ Len(last.sent) = MaxBlocks

\* C4: commands enqueued through one Handle are handled, and so published,
\* in the order of their enqueueing: every command of a Handle that still
\* waits in the channel was enqueued after the command of that Handle that
\* was handled last, whatever transport events came in between.
C4_CommandOrder ==
    /\ \A i \in 1..Len(command_queue) :
          command_queue[i].seq > last_seq[command_queue[i].from]
    /\ \A i, j \in 1..Len(command_queue) :
          (i < j /\ command_queue[i].from = command_queue[j].from)
              => command_queue[i].seq < command_queue[j].seq

\* two commands of h1 have been handled, the second just now, and a gossip
\* message has been handled as well (it left its warning)
C4_Witness ==
    /\ last.op = "command" /\ last.handle = "h1"
    /\ last_seq["h1"] = 2
    /\ accepted = 2 /\ command_queue = << >>
    /\ warned # {}
    /\ Len(last.published) = 1

\* the events the specification's table gives for a message m from peer P
RECURSIVE BlockEvents(_, _)
BlockEvents(P, bs) ==
    IF bs = << >> THEN << >>
    ELSE Append(BlockEvents(P, SubSeq(bs, 1, Len(bs) - 1)),
                [type |-> "BlockReceived", peer_id |-> P, block |-> bs[Len(bs)]])

EventsOf(P, m) ==
    IF m.type = "NewBlock"
        THEN <<[type |-> "BlockReceived", peer_id |-> P, block |-> m.block]>>
    ELSE IF m.type = "NewTransaction"
        THEN <<[type |-> "TransactionReceived", peer_id |-> P,
                transaction |-> m.transaction]>>
    ELSE IF m.type = "Status"
        THEN <<[type |-> "StatusReceived", peer_id |-> P, height |-> m.height,
                best_hash |-> m.best_block_hash]>>
    ELSE IF m.type = "GetBlocks"
        THEN <<[type |-> "BlocksRequested", peer_id |-> P,
                start_height |-> m.start_height, count |-> m.count]>>
    ELSE IF m.type = "Blocks" THEN BlockEvents(P, m.blocks)
    ELSE << >>

\* C5: a gossip payload that fails to decode produces no event and leaves
\* the loop running, and a valid message handled after such a failure, from
\* the same peer or another, is still translated into its events.
C5_MalformedDropped ==
    /\ (Gossip /\ ~Decoded) => (last.sent = << >> /\ actor_state = "running")
    /\ (Decoded /\ warned # {}) => last.sent = EventsOf(LastPeer, LastMsg)

\* a valid message from a peer whose earlier payload failed to decode,
\* translated while a second peer's payload has failed too
C5_Witness ==
    /\ Decoded /\ LastPeer \in warned /\ warned = Peers
    /\ last.sent # << >>
    /\ actor_state = "running"

\* the publish the specification's table gives for a command
ExpectedPublish(c) ==
    IF c.type = "BroadcastBlock"
        THEN [topic |-> blocks_topic,
              message |-> [type |-> "NewBlock", block |-> c.block]]
    ELSE IF c.type = "BroadcastTransaction"
        THEN [topic |-> transactions_topic,
              message |-> [type |-> "NewTransaction", transaction |-> c.tx]]
    ELSE IF c.type = "SendStatus"
        THEN [topic |-> blocks_topic,
              message |-> [type |-> "Status", height |-> c.height,
                           best_hash |-> c.best_hash]]
    ELSE [topic |-> blocks_topic,
          message |-> [type |-> "GetBlocks", start_height |-> c.start_height,
                       count |-> c.count]]

Queued(c) == \E i \in 1..Len(command_queue) : command_queue[i].command = c

PublishedFor(c) ==
    /\ last.op = "command" /\ last.command = c
    /\ Len(last.published) = 1
    /\ last.published[1].topic = ExpectedPublish(c).topic
    /\ last.published[1].message = ExpectedPublish(c).message

\* C6: with the receiver of the event channel dropped, a command that
\* waits in the command channel still leads to the publish attempt of its
\* message on its topic (RequestBlocks -> GetBlocks on "blocks", and the
\* other three alike).
C6_PublishWithoutSubscriber ==
    \A c \in Commands : (Queued(c) /\ ~event_rx) ~> (PublishedFor(c) /\ ~event_rx)

C6_Witness ==
    /\ ~event_rx
    /\ last.op = "command" /\ last.command.type = "RequestBlocks"
    /\ PublishedFor(last.command)

\* C7: while at least one Handle is alive the loop is running: a decode
\* failure, a publish failure or a send on the closed event channel does
\* not stop it.
C7_RunsWhileHandleAlive == (alive # {}) => (actor_state = "running")

\* an iteration that failed to send on the closed event channel, after a
\* decode failure, with a Handle alive
C7_Witness ==
    /\ last.result = "send_error" /\ warned # {}
    /\ alive # {} /\ actor_state = "running"

\* C8: each handled command causes one publish attempt, of the message and
\* on the topic that belong to its variant.
C8_CommandToPublish ==
    (last.op = "command") =>
        /\ Len(last.published) = 1
        /\ LET c == last.command
               pub == last.published[1]
           IN  /\ c.type = "BroadcastBlock" =>
                      /\ pub.topic = blocks_topic
                      /\ pub.message = [type |-> "NewBlock", block |-> c.block]
               /\ c.type = "BroadcastTransaction" =>
                      /\ pub.topic = transactions_topic
                      /\ pub.message = [type |-> "NewTransaction", transaction |-> c.tx]
               /\ c.type = "SendStatus" =>
                      /\ pub.topic = blocks_topic
                      /\ pub.message.type = "Status"
                      /\ pub.message.height = c.height
                      /\ pub.message.best_hash = c.best_hash
               /\ c.type = "RequestBlocks" =>
                      /\ pub.topic = blocks_topic
                      /\ pub.message = [type |-> "GetBlocks",
                                        start_height |-> c.start_height,
                                        count |-> c.count]

C8_Witness ==
    /\ last.op = "command" /\ last.command.type = "BroadcastTransaction"
    /\ last.published[1].topic = transactions_topic
    /\ transactions_topic # blocks_topic
    /\ last.published[1].data = <<1, last.command.tx>>

\* C9: a decoded NewBlock, NewTransaction, Status or GetBlocks from peer P
\* produces exactly one event: BlockReceived, TransactionReceived,
\* StatusReceived (best_hash = best_block_hash) or BlocksRequested, with P
\* and the fields of the message.
C9_InboundDispatch ==
    Decoded =>
        LET m == LastMsg
            P == LastPeer
        IN  /\ m.type = "NewBlock" =>
                  last.sent = <<[type |-> "BlockReceived", peer_id |-> P,
                                 block |-> m.block]>>
            /\ m.type = "NewTransaction" =>
                  last.sent = <<[type |-> "TransactionReceived", peer_id |-> P,
                                 transaction |-> m.transaction]>>
            /\ m.type = "Status" =>
                  last.sent = <<[type |-> "StatusReceived", peer_id |-> P,
                                 height |-> m.height,
                                 best_hash |-> m.best_block_hash]>>
            /\ m.type = "GetBlocks" =>
                  last.sent = <<[type |-> "BlocksRequested", peer_id |-> P,
                                 start_height |-> m.start_height,
                                 count |-> m.count]>>

C9_Witness ==
    /\ Decoded /\ LastMsg.type = "Status"
    /\ Len(last.sent) = 1 /\ last.sent[1].type = "StatusReceived"

\* C10 as claimed: every event sent carries the peer that originated the
\* wire message, also when another peer forwarded the message to this node.
C10_OriginatorAttribution ==
    Gossip => \A i \in 1..Len(last.sent) : last.sent[i].peer_id = last.event.source

\* C10 as amended: every event sent carries the propagation source of the
\* gossip message, the peer that delivered it to this node.
C10_PropagationSourceAttribution ==
    Gossip => \A i \in 1..Len(last.sent) :
                  last.sent[i].peer_id = last.event.propagation_source

C10_Witness ==
    /\ Gossip /\ last.sent # << >>
    /\ last.event.source # last.event.propagation_source
    /\ last.sent[1].peer_id = last.event.propagation_source

\* C11: an enqueue through a Handle whose receiver has been dropped returns
\* ChannelClosed to the caller and enqueues nothing (the caller goes on: its
\* Handle stays usable), and no command of such a call is ever queued or
\* handled, so nothing is published for it.
ReceiverDropped(h) ==
    \/ h = replace_return.handle /\ ~replace_return.command_rx_returned
    \/ actor_state # "running"

QueueChangesOnlyByEnqueueAndRecv ==
    /\ Len(command_queue') < Len(command_queue) =>
          /\ last'.op = "command"
          /\ Len(command_queue') = Len(command_queue) - 1
          /\ accepted' = accepted
          /\ Len(last'.published) <= 1
    /\ Len(command_queue') > Len(command_queue) => last'.op = "enqueue"

C12_AtMostOnce ==
    /\ [][QueueChangesOnlyByEnqueueAndRecv]_vars
    /\ [](last.op = "command" =>
              /\ Len(last.published) <= 1
              /\ \A i \in 1..Len(command_queue) :
                    command_queue[i].from = last.handle
                        => command_queue[i].seq # last_seq[last.handle])
    /\ []((last.op = "command" /\ last.result = "publish_error") =>
              /\ actor_state = "running"
              /\ (command_queue # << >> => ENABLED HandleCommand)
              /\ \A event \in CoreGossipEvents : ENABLED HandleGossip(event))

C12_Witness ==
    /\ last.op = "command" /\ last.result = "publish_error"
    /\ Len(last.published) = 1 /\ ~last.published[1].ok
    /\ command_queue # << >>
    /\ accepted = MaxCmds

\* C13: an inbound gossip message that decodes to GetStatus, Ping or Pong
\* makes the handler send no NetworkEvent at all.
C13_InertVariants ==
    (Decoded /\ LastMsg.type \in {"GetStatus", "Ping", "Pong"}) =>
        /\ last.sent = << >>
        /\ last.result = "ok"

C13_Witness ==
    /\ Decoded /\ LastMsg.type = "Ping" /\ LastMsg.nonce \in Nonces
    /\ event_rx
    /\ last.sent = << >>

\* C17: the message that handle_command builds for SendStatus is one the
\* inbound handler accepts as Message::Status (it has the fields that the
\* Status arm binds), and received from any peer P it yields exactly one
\* StatusReceived with P and the height and the hash of the command.
StatusPattern(m) ==
    m.type = "Status" /\ {"height", "best_block_hash"} \subseteq DOMAIN m

C17_StatusEndToEnd ==
    (last.op = "command" /\ last.command.type = "SendStatus") =>
        /\ Len(last.published) = 1
        /\ StatusPattern(last.published[1].message)
        /\ \A P \in Peers :
              Dispatch(P, last.published[1].message)
                  = <<[type |-> "StatusReceived", peer_id |-> P,
                       height |-> last.command.height,
                       best_hash |-> last.command.best_hash]>>

\* C18: what is published for a SendStatus or a RequestBlocks command does
\* not depend on its peer_id: the same command with any other peer_id gives
\* the same publish attempt, on the "blocks" topic as a whole.
C18_PeerIdIgnored ==
    (last.op = "command" /\ last.command.type \in {"SendStatus", "RequestBlocks"}) =>
        /\ \A p \in Peers :
              handle_command([last.command EXCEPT !.peer_id = p],
                             last.result = "ok") = last.published
        /\ \A i \in 1..Len(last.published) : last.published[i].topic = blocks_topic

C18_Witness ==
    /\ last.op = "command" /\ last.command.type = "RequestBlocks"
    /\ last.command.peer_id = "p2"
    /\ Len(last.published) = 1
    /\ last.published[1].topic = blocks_topic
    /\ last.published[1].data = <<3, last.command.start_height, last.command.count>>

\* C19: handling a command sends no NetworkEvent and leaves the peer table
\* as it was; handling an inbound gossip message, of whatever variant
\* (Ping included) or malformed, publishes nothing and leaves the peer
\* table as it was.
CommandStep == Len(command_queue') < Len(command_queue)
GossipStep == last'.op = "gossip"

HandlerFrame ==
    /\ CommandStep => (last'.sent = << >> /\ peers' = peers /\ warned' = warned)
    /\ GossipStep => (last'.published = << >> /\ peers' = peers
                        /\ command_queue' = command_queue)

CommandWaits(n) == \E i \in 1..Len(command_queue) : command_queue[i].seq = n
EventWaits(n) == \E i \in 1..Len(swarm_queue) : swarm_queue[i].no = n
LoopWaits == actor_state = "running" /\ sending = << >>

C15_PerPeerOrder ==
    \A i, j \in 1..Len(outputs) :
        (/\ i < j
         /\ outputs[i].kind = "event" /\ outputs[j].kind = "event"
         /\ outputs[i].from = outputs[j].from)
            => outputs[i].no <= outputs[j].no

C15_Witness ==
    \E i, j, k \in 1..Len(outputs) :
        /\ i < k /\ k < j
        /\ outputs[i].kind = "event" /\ outputs[j].kind = "event"
        /\ outputs[k].kind = "event"
        /\ outputs[i].from = outputs[j].from /\ outputs[i].no < outputs[j].no
        /\ outputs[k].from # outputs[i].from

\* C16: an iteration is over before the next one starts: the loop takes a
\* command or a gossip event only when no handler has sends left to make,
\* so the events of one gossip message (the N BlockReceived of a Blocks
\* message among them) follow each other on the event channel, with no
\* publish and no event of another message between them.
TakesNext ==
    \/ Len(command_queue') < Len(command_queue)
    \/ Len(swarm_queue') < Len(swarm_queue)

EventsOfMessage(n) ==
    {i \in 1..Len(outputs) : outputs[i].kind = "event" /\ outputs[i].no = n}

C16_RunToCompletion ==
    /\ [][TakesNext => sending = << >>]_vars
    /\ [](\A i, j \in 1..Len(outputs) :
              (/\ i < j
               /\ outputs[i].kind = "event" /\ outputs[j].kind = "event"
               /\ outputs[i].no = outputs[j].no)
                  => \A k \in i..j : k \in EventsOfMessage(outputs[i].no))

C16_Witness ==
    /\ sending = << >>
    /\ \E i \in 1..Len(outputs) :
          /\ i + MaxBlocks + 1 <= Len(outputs)
          /\ outputs[i].kind = "publish"
          /\ \A k \in 1..MaxBlocks :
                /\ outputs[i + k].kind = "event"
                /\ outputs[i + k].item.type = "BlockReceived"
                /\ outputs[i + k].no = outputs[i + 1].no
          /\ outputs[i + MaxBlocks + 1].kind = "publish"
          /\ outputs[i + MaxBlocks + 1].no > outputs[i].no
    /\ last_seq["h1"] = MaxCmds

(***************************************************************************)
(* fix_network_syntax.py: the line filter                                  *)
(***************************************************************************)
MaxLines == 5

\* a line is the sequence of its pieces: white space, a comma, the word
\* NewListenAddr, other text
Whitespace == {" ", "\n"}

LineTexts ==
    { <<",", "\n">>, <<" ", ",", "\n">>, <<" ", "NewListenAddr", "(", "\n">>,
      <<"}", "\n">> }

\* lines = f.readlines()
RECURSIVE SeqsUpTo(_, _)
SeqsUpTo(S, n) ==
    IF n = 0 THEN { << >> }
    ELSE LET shorter == SeqsUpTo(S, n - 1)
         IN  shorter \cup { Append(q, x) : q \in shorter, x \in S }

Files == SeqsUpTo(LineTexts, MaxLines)

\* line.strip()
RECURSIVE lstrip(_)
lstrip(line) ==
    IF line # << >> /\ Head(line) \in Whitespace THEN lstrip(Tail(line)) ELSE line

RECURSIVE rstrip(_)
rstrip(line) ==
    IF line # << >> /\ line[Len(line)] \in Whitespace
    THEN rstrip(SubSeq(line, 1, Len(line) - 1))
    ELSE line

strip(line) == rstrip(lstrip(line))

\* word in line
Contains(line, word) == \E k \in 1..Len(line) : line[k] = word

IsMatchOutsideWindow(ls, i) ==
    /\ skip_next = 0
    /\ i < Len(ls) - 1
    /\ strip(ls[i + 1]) = <<",">>
    /\ Contains(ls[i + 2], "NewListenAddr")

\* the condition of the first if, for the line of (0-based) index i:
\* i < len(lines) - 1 and line.strip() == ',' and 'NewListenAddr' in lines[i+1]
IsMatch(ls, i) ==
    /\ i < Len(ls) - 1
    /\ strip(ls[i + 1]) = <<",">>
    /\ Contains(ls[i + 2], "NewListenAddr")

FilterInit ==
    /\ actor_state = "running"
    /\ alive = Handles
    /\ event_rx = TRUE
    /\ command_queue = << >>
    /\ accepted = 0
    /\ last_seq = [h \in Handles |-> 0]
    /\ warned = {}
    /\ last = Op("init", "-", "-", None, << >>, NoGossip, << >>)
    /\ peers = {}
    /\ swarm_queue = << >>
    /\ arrived = 0
    /\ sending = << >>
    /\ outputs = << >>
    /\ lines \in Files
    /\ idx = 0
    /\ skip_next = 0
    /\ cleaned_lines = << >>

\* an iteration of `for i, line in enumerate(lines)` that takes the first if
MatchLine ==
    /\ idx < Len(lines)
    /\ IsMatch(lines, idx)
    /\ skip_next' = 3
    /\ idx' = idx + 1
    /\ UNCHANGED <<lines, cleaned_lines, actor_vars, detail_vars>>

\* an iteration that takes the second if
SkipLine ==
    /\ idx < Len(lines)
    /\ ~IsMatch(lines, idx)
    /\ skip_next > 0
    /\ skip_next' = skip_next - 1
    /\ idx' = idx + 1
    /\ UNCHANGED <<lines, cleaned_lines, actor_vars, detail_vars>>

\* an iteration that reaches cleaned_lines.append(line)
KeepLine ==
    /\ idx < Len(lines)
    /\ ~IsMatch(lines, idx)
    /\ ~(skip_next > 0)
    /\ cleaned_lines' = Append(cleaned_lines, lines[idx + 1])
    /\ idx' = idx + 1
    /\ UNCHANGED <<lines, skip_next, actor_vars, detail_vars>>

FilterNext == MatchLine \/ SkipLine \/ KeepLine

FilterSpec == FilterInit /\ [][FilterNext]_vars

\* C20: the filter outputs the input lines in their order, without the
\* lines of any window: a window is a line (not the last one) that strips
\* to ',' and is followed by a line containing NewListenAddr, together with
\* the three lines after it; a match inside a window opens its own window.
\* After n lines of the loop, the output is what remains of the first n.
ClaimedMatches(ls) ==
    { m \in 1..(Len(ls) - 1) :
        strip(ls[m]) = <<",">> /\ Contains(ls[m + 1], "NewListenAddr") }

InWindow(ls, j) == \E m \in ClaimedMatches(ls) : m <= j /\ j <= m + 3

RECURSIVE Remaining(_, _)
Remaining(ls, n) ==
    IF n = 0 THEN << >>
    ELSE IF InWindow(ls, n) THEN Remaining(ls, n - 1)
         ELSE Append(Remaining(ls, n - 1), ls[n])

C20_LineFilter == cleaned_lines = Remaining(lines, idx)

C20_Witness ==
    /\ idx = Len(lines) /\ Len(lines) = MaxLines
    /\ \E m1, m2 \in ClaimedMatches(lines) : m1 < m2 /\ m2 <= m1 + 3
    /\ cleaned_lines # << >>
    /\ cleaned_lines = Remaining(lines, Len(lines))

====
